---------------------------- MODULE Spec2Model ----------------------------
(***************************************************************************)
(* A model of pyvisa/util.py: the IEEE 488.2 block codec (to_ieee_block,   *)
(* from_ieee_block, the legacy parse_binary), the PE header prober         *)
(* (get_shared_library_arch, get_arch) and the LibraryPath arch cache.     *)
(*                                                                         *)
(* Bytes are the integers 0..255 and a buffer is a sequence of bytes.      *)
(* Python indices are 0-based and are kept so: Slice(s, i, j) is s[i:j].   *)
(* A number (a Python float) is identified with its 8-byte IEEE-754 image, *)
(* most significant byte first.                                            *)
(***************************************************************************)
EXTENDS Integers, Sequences, FiniteSets, TLC

VARIABLES
    pc,             \* codec: "idle" | "ready" (a block is at hand)
    origin,         \* codec: how the block at hand was produced
    data,           \* codec: the numbers that were packed into the block
    datatype,       \* codec: "f" (single) | "d" (double)
    is_big_endian,  \* codec: the endianness flag
    block,          \* codec: the block at hand, [ok, err, val]
    from_res,       \* codec: what from_ieee_block returned for the block
    pb_res,         \* codec: what parse_binary returned for the block
    big,            \* codec on a long sequence: its length, header and result
    this_platform,  \* sys.platform of the running process
    probe,          \* prober: the last direct get_arch call and its inputs
    _arch,          \* LibraryPath._arch of every LibraryPath object
    calls,          \* number of get_arch invocations made by each object
    first_arch,     \* what the first read of arch returned, per object
    last_read       \* the last property read, per object: [prop, arch, ret]

vars == <<pc, origin, data, datatype, is_big_endian, block, from_res, pb_res,
          big, this_platform, probe, _arch, calls, first_arch, last_read>>

codec_vars == <<pc, origin, data, datatype, is_big_endian, block, from_res, pb_res>>
path_vars == <<_arch, calls, first_arch, last_read>>

(***************************************************************************)
(* Bounds of the model.                                                    *)
(***************************************************************************)
\* longest numeric sequence that is encoded or packed onto the wire
MaxLen == 2
\* number of property reads followed on one LibraryPath object
MaxReads == 3

(***************************************************************************)
(* Python values.                                                          *)
(***************************************************************************)
None == "None"

Ok(v) == [ok |-> TRUE, err |-> "", val |-> v]

Raise(e) == [ok |-> FALSE, err |-> e, val |-> <<>>]

\* UnicodeDecodeError is a subclass of ValueError
IsValueError(r) == ~r.ok /\ r.err \in {"ValueError", "UnicodeDecodeError"}

Min(a, b) == IF a < b THEN a ELSE b

\* s[i:j] for 0 <= i; a negative j counts from the end, as in Python
Slice(s, i, j) ==
    SubSeq(s, i + 1, IF j < 0 THEN Len(s) + j ELSE Min(j, Len(s)))

\* s[i:]
SliceFrom(s, i) == SubSeq(s, i + 1, Len(s))

RECURSIVE Reverse(_)
Reverse(s) == IF s = <<>> THEN <<>> ELSE Reverse(Tail(s)) \o <<Head(s)>>

\* bytes.find of a single byte: the 0-based index of its first occurrence, or -1
find(s, b) ==
    IF \E i \in 1..Len(s) : s[i] = b
    THEN (CHOOSE i \in 1..Len(s) : s[i] = b /\ \A j \in 1..(i - 1) : s[j] # b) - 1
    ELSE -1

HASH == 35

NEWLINE == 10

IsDigitByte(b) == b >= 48 /\ b <= 57

IsSpaceByte(b) == b \in {9, 10, 11, 12, 13, 32}

\* '%d' % n for n >= 0, as ASCII bytes
RECURSIVE Str(_)
Str(n) == IF n < 10 THEN <<48 + n>> ELSE Str(n \div 10) \o <<48 + (n % 10)>>

RECURSIVE LStrip(_)
LStrip(s) == IF s # <<>> /\ IsSpaceByte(Head(s)) THEN LStrip(Tail(s)) ELSE s

Strip(s) == Reverse(LStrip(Reverse(LStrip(s))))

RECURSIVE DigitsValue(_)
DigitsValue(s) ==
    IF s = <<>> THEN 0
    ELSE DigitsValue(SubSeq(s, 1, Len(s) - 1)) * 10 + (s[Len(s)] - 48)

\* int(b) of a bytes object: surrounding whitespace, an optional sign, decimal
\* digits with single underscores between digits; anything else is ValueError
PyInt(s) ==
    LET t == Strip(s)
        signed == t # <<>> /\ t[1] \in {43, 45}
        body == IF signed THEN Tail(t) ELSE t
        valid == /\ body # <<>>
                 /\ \A i \in 1..Len(body) :
                      \/ IsDigitByte(body[i])
                      \/ /\ body[i] = 95
                         /\ 1 < i /\ i < Len(body)
                         /\ IsDigitByte(body[i - 1]) /\ IsDigitByte(body[i + 1])
        mag == DigitsValue(SelectSeq(body, IsDigitByte))
    IN IF valid
       THEN Ok(IF signed /\ t[1] = 45 THEN 0 - mag ELSE mag)
       ELSE Raise("ValueError")

\* int(a / b) under true division, b > 0: truncation toward zero
TruncDiv(a, b) == IF a >= 0 THEN a \div b ELSE 0 - ((0 - a) \div b)

(***************************************************************************)
(* The struct module.  pack narrows a float to its single-precision image  *)
(* for 'f' (modelled as keeping the leading four bytes of the image) and   *)
(* unpack widens a single back exactly (the dropped bytes read as zero).   *)
(***************************************************************************)
calcsize(dt) == IF dt = "f" THEN 4 ELSE 8

Narrow(x) == SubSeq(x, 1, 4)

Widen(s) == s \o <<0, 0, 0, 0>>

endianess(big_endian) == IF big_endian THEN ">" ELSE "<"

pack_one(e, dt, x) ==
    LET img == IF dt = "f" THEN Narrow(x) ELSE x
    IN IF e = ">" THEN img ELSE Reverse(img)

unpack_one(e, dt, bytes) ==
    LET img == IF e = ">" THEN bytes ELSE Reverse(bytes)
    IN IF dt = "f" THEN Widen(img) ELSE img

RECURSIVE pack_all(_, _, _)
pack_all(e, dt, values) ==
    IF values = <<>> THEN <<>>
    ELSE pack_one(e, dt, Head(values)) \o pack_all(e, dt, Tail(values))

\* struct.pack(e + str(count) + dt, *values): as many values as the format names
_struct_pack(e, count, dt, values) ==
    IF count = Len(values) THEN Ok(pack_all(e, dt, values)) ELSE Raise("struct.error")

unpack_all(e, dt, count, buffer, offset) ==
    [i \in 1..count |->
        unpack_one(e, dt, Slice(buffer, offset + (i - 1) * calcsize(dt),
                                        offset + i * calcsize(dt)))]

\* struct.unpack: the buffer is exactly the size the format names; a negative
\* count is no format at all
_struct_unpack(e, count, dt, buffer) ==
    IF count >= 0 /\ Len(buffer) = count * calcsize(dt)
    THEN Ok(unpack_all(e, dt, count, buffer, 0))
    ELSE Raise("struct.error")

\* struct.unpack_from: at least the size the format names remains after offset
_struct_unpack_from(e, count, dt, buffer, offset) ==
    IF count >= 0 /\ Len(buffer) - offset >= count * calcsize(dt)
    THEN Ok(unpack_all(e, dt, count, buffer, offset))
    ELSE Raise("struct.error")

(***************************************************************************)
(* parse_binary (the legacy decoder).                                      *)
(***************************************************************************)
IsAscii(s) == \A i \in 1..Len(s) : s[i] < 128

parse_binary_unpack(dat, data_length, big_endian, is_single) ==
    LET r == IF is_single
             THEN _struct_unpack(endianess(big_endian), data_length \div 4, "f", dat)
             ELSE _struct_unpack(endianess(big_endian), data_length \div 8, "d", dat)
    IN IF r.ok THEN r ELSE Raise("ValueError")

\* the branch taken for "#0", "#" and a non-digit after "#"
parse_binary_indefinite(dat0) ==
    LET d2 == SliceFrom(dat0, 2)
        last == SliceFrom(d2, IF Len(d2) > 0 THEN Len(d2) - 1 ELSE 0)
    IN IF ~IsAscii(last) THEN Raise("UnicodeDecodeError")
       ELSE IF last = <<NEWLINE>> THEN Ok(SubSeq(d2, 1, Len(d2) - 1))
       ELSE Ok(d2)

parse_binary(bytes_data, big_endian, is_single) ==
    LET hash_sign_position == find(bytes_data, HASH)
        dat0 == IF hash_sign_position > 0
                THEN SliceFrom(bytes_data, hash_sign_position)
                ELSE bytes_data
        data_1 == Slice(dat0, 1, 2)
    IN IF hash_sign_position = -1 THEN Raise("ValueError")
       ELSE IF ~IsAscii(data_1) THEN Raise("UnicodeDecodeError")
       ELSE IF data_1 # <<>> /\ IsDigitByte(data_1[1]) /\ data_1[1] - 48 > 0
       THEN LET number_of_digits == data_1[1] - 48
                field == PyInt(Slice(dat0, 2, 2 + number_of_digits))
            IN IF ~field.ok THEN Raise("ValueError")
               ELSE parse_binary_unpack(
                        Slice(dat0, 2 + number_of_digits,
                              2 + number_of_digits + field.val),
                        field.val, big_endian, is_single)
       ELSE LET stripped == parse_binary_indefinite(dat0)
            IN IF ~stripped.ok THEN stripped
               ELSE parse_binary_unpack(stripped.val, Len(stripped.val),
                                        big_endian, is_single)

(***************************************************************************)
(* from_ieee_block (the primary decoder).                                  *)
(***************************************************************************)
\* int(block[begin+1:begin+2]), 0 on ValueError
ieee_header_length(blk, begin) ==
    LET r == PyInt(Slice(blk, begin + 1, begin + 2))
    IN IF r.ok THEN r.val ELSE 0

\* the element count the decoder unpacks and the offset it unpacks from
ieee_data_length(blk, total_len, begin, dt) ==
    LET header_length == ieee_header_length(blk, begin)
    IN IF header_length > 0
       THEN PyInt(Slice(blk, begin + 2, begin + 2 + header_length))
       ELSE Ok(TruncDiv(total_len - (begin + 2) - 1, calcsize(dt)))

ieee_offset(blk, begin) == begin + 2 + ieee_header_length(blk, begin)

from_ieee_block(blk, dt, big_endian) ==
    LET begin == find(blk, HASH)
        data_length == ieee_data_length(blk, Len(blk), begin, dt)
    IN IF begin < 0 THEN Raise("ValueError")
       ELSE IF ~data_length.ok THEN Raise("ValueError")
       ELSE LET r == _struct_unpack_from(endianess(big_endian), data_length.val,
                                         dt, blk, ieee_offset(blk, begin))
            IN IF r.ok THEN r ELSE Raise("ValueError")

(***************************************************************************)
(* to_ieee_block.                                                          *)
(***************************************************************************)
\* '#%d%d' % (len(header), data_length) with header = '%d' % data_length
ieee_header(data_length) ==
    <<HASH>> \o Str(Len(Str(data_length))) \o Str(data_length)

to_ieee_block(values, dt, big_endian) ==
    LET data_length == Len(values)
        payload == _struct_pack(endianess(big_endian), data_length, dt, values)
    IN IF payload.ok THEN Ok(ieee_header(data_length) \o payload.val) ELSE payload

(***************************************************************************)
(* The codec's inputs.                                                     *)
(***************************************************************************)
\* 1.0, -1.0 and 1.0 + 10 ulp (its low half is lost in single precision; its
\* last byte is a newline).  All lie in the range of a single: struct.pack
\* raises OverflowError for 'f' beyond it, which is not modelled.
One == <<63, 240, 0, 0, 0, 0, 0, 0>>

MinusOne == <<191, 240, 0, 0, 0, 0, 0, 0>>

OneEps == <<63, 240, 0, 0, 0, 0, 0, 10>>

Numbers == {One, MinusOne, OneEps}

SeqsUpTo(S, n) == UNION {[1..k -> S] : k \in 0..n}

Datatypes == {"f", "d"}

\* the largest length a received header declares: one more than the payload
MaxDeclared == 8 * MaxLen + 1

\* N written in exactly L digits
RECURSIVE Padded(_, _)
Padded(n, width) ==
    IF width = 0 THEN <<>> ELSE Padded(n \div 10, width - 1) \o <<48 + (n % 10)>>

\* what follows '#' in a received block: nothing, '0', a letter, or a digit L
\* and a length N written in L digits
HeaderChoices ==
    {[kind |-> k, L |-> 0, N |-> 0] : k \in {"none", "zero", "letter"}}
    \cup {[kind |-> "definite", L |-> 1, N |-> n] : n \in 0..Min(9, MaxDeclared)}
    \cup {[kind |-> "definite", L |-> 2, N |-> n] : n \in 0..Min(99, MaxDeclared)}

HeaderBytes(h) ==
    CASE h.kind = "none" -> <<>>
      [] h.kind = "zero" -> <<48>>
      [] h.kind = "letter" -> <<120>>
      [] OTHER -> <<48 + h.L>> \o Padded(h.N, h.L)

NoResult == [ok |-> FALSE, err |-> "not called", val |-> <<>>]

NoOrigin ==
    [kind |-> "none", junk |-> <<>>, hdr |-> [kind |-> "none", L |-> 0, N |-> 0],
     cut |-> 0, term |-> <<>>]

(***************************************************************************)
(* The codec as a state machine: a block is produced by to_ieee_block or   *)
(* arrives from the transport, both decoders may be applied to it, and it  *)
(* is dropped.                                                             *)
(***************************************************************************)
CodecIdle ==
    /\ pc = "idle"
    /\ origin = NoOrigin
    /\ data = <<>>
    /\ datatype = "f"
    /\ is_big_endian = FALSE
    /\ block = NoResult
    /\ from_res = NoResult
    /\ pb_res = NoResult

ToIeeeBlock(v, dt, e) ==
    /\ pc = "idle"
    /\ pc' = "ready"
    /\ origin' = [NoOrigin EXCEPT !.kind = "to_ieee_block"]
    /\ data' = v
    /\ datatype' = dt
    /\ is_big_endian' = e
    /\ block' = to_ieee_block(v, dt, e)
    /\ UNCHANGED <<from_res, pb_res>>

\* a block read from the instrument: junk, '#', a header, the first cut bytes
\* of the packed numbers, and possibly the transport's terminator
Receive(junk, hdr, v, dt, e, cut, term) ==
    /\ pc = "idle"
    /\ cut <= Len(v) * calcsize(dt)
    /\ pc' = "ready"
    /\ origin' = [kind |-> "wire", junk |-> junk, hdr |-> hdr, cut |-> cut,
                  term |-> term]
    /\ data' = v
    /\ datatype' = dt
    /\ is_big_endian' = e
    /\ block' = Ok(junk \o <<HASH>> \o HeaderBytes(hdr)
                      \o SubSeq(pack_all(endianess(e), dt, v), 1, cut) \o term)
    /\ UNCHANGED <<from_res, pb_res>>

FromIeeeBlock ==
    /\ pc = "ready"
    /\ block.ok
    /\ from_res = NoResult
    /\ from_res' = from_ieee_block(block.val, datatype, is_big_endian)
    /\ UNCHANGED <<pc, origin, data, datatype, is_big_endian, block, pb_res>>

ParseBinary ==
    /\ pc = "ready"
    /\ block.ok
    /\ pb_res = NoResult
    /\ pb_res' = parse_binary(block.val, is_big_endian, datatype = "f")
    /\ UNCHANGED <<pc, origin, data, datatype, is_big_endian, block, from_res>>

Drop ==
    /\ pc = "ready"
    /\ pc' = "idle"
    /\ origin' = NoOrigin
    /\ data' = <<>>
    /\ datatype' = "f"
    /\ is_big_endian' = FALSE
    /\ block' = NoResult
    /\ from_res' = NoResult
    /\ pb_res' = NoResult

\* the rest of the program is untouched by the codec
CodecOnly == UNCHANGED <<big, this_platform, probe, path_vars>>

Encode ==
    /\ pc = "idle"
    /\ \E v \in SeqsUpTo(Numbers, MaxLen), dt \in Datatypes, e \in BOOLEAN :
          ToIeeeBlock(v, dt, e)
    /\ CodecOnly

Arrive ==
    /\ pc = "idle"
    /\ \E junk \in {<<>>, <<NEWLINE>>}, hdr \in HeaderChoices,
          v \in SeqsUpTo(Numbers, MaxLen), dt \in Datatypes, e \in BOOLEAN,
          term \in {<<>>, <<NEWLINE>>} :
          \E cut \in 0..(Len(v) * calcsize(dt)) :
              Receive(junk, hdr, v, dt, e, cut, term)
    /\ CodecOnly

DecodePrimary == FromIeeeBlock /\ CodecOnly

DecodeLegacy == ParseBinary /\ CodecOnly

Discard == Drop /\ CodecOnly

(***************************************************************************)
(* to_ieee_block and from_ieee_block on sequences too long to store: the   *)
(* block is its header followed by n packed elements, of which only the    *)
(* number is kept.  Both use the header operators of the functions above.  *)
(***************************************************************************)
RECURSIVE Pow10(_)
Pow10(k) == IF k = 0 THEN 1 ELSE 10 * Pow10(k - 1)

LargeLens ==
    {Pow10(k) - 1 : k \in 1..9} \cup {Pow10(k) : k \in 1..9}
    \cup {0, 1000000001, 2000000000}

\* the header to_ieee_block writes for a sequence of n elements
to_ieee_block_head(n, dt, big_endian) == Ok(ieee_header(n))

\* from_ieee_block on head followed by nelem packed elements: the number of
\* elements it returns.  The bytes left after offset are
\* Len(head) - offset + nelem * calcsize(dt), compared here in elements.
from_ieee_block_count(head, nelem, dt) ==
    LET begin == find(head, HASH)
        header_length == ieee_header_length(head, begin)
        offset == ieee_offset(head, begin)
        data_length ==
            IF header_length > 0
            THEN ieee_data_length(head, Len(head), begin, dt)
            ELSE Ok(nelem + ((Len(head) - (begin + 2) - 1) \div calcsize(dt)))
    IN IF begin < 0 THEN Raise("ValueError")
       ELSE IF ~data_length.ok THEN Raise("ValueError")
       ELSE IF /\ data_length.val >= 0
               /\ data_length.val <= nelem + ((Len(head) - offset) \div calcsize(dt))
       THEN Ok(data_length.val)
       ELSE Raise("ValueError")

NoLarge == [stage |-> "idle", n |-> 0, datatype |-> "f", is_big_endian |-> FALSE,
            head |-> NoResult, res |-> NoResult]

LargeIdle == big = NoLarge

ToIeeeBlockLarge(n, dt, e) ==
    /\ big.stage = "idle"
    /\ big' = [stage |-> "encoded", n |-> n, datatype |-> dt, is_big_endian |-> e,
               head |-> to_ieee_block_head(n, dt, e), res |-> NoResult]

FromIeeeBlockLarge ==
    /\ big.stage = "encoded"
    /\ big.head.ok
    /\ big' = [big EXCEPT !.stage = "decoded",
                          !.res = from_ieee_block_count(big.head.val, big.n,
                                                        big.datatype)]

DropLarge ==
    /\ big.stage # "idle"
    /\ big' = NoLarge

LargeOnly == UNCHANGED <<codec_vars, this_platform, probe, path_vars>>

EncodeLarge ==
    /\ big.stage = "idle"
    /\ \E n \in LargeLens, dt \in Datatypes, e \in BOOLEAN :
          ToIeeeBlockLarge(n, dt, e)
    /\ LargeOnly

DecodeLarge == FromIeeeBlockLarge /\ LargeOnly

DiscardLarge == DropLarge /\ LargeOnly

(***************************************************************************)
(* The architecture prober.                                                *)
(***************************************************************************)
machine_types ==
    (0 :> "UNKNOWN") @@ (332 :> "I386") @@ (354 :> "R3000") @@ (358 :> "R4000")
    @@ (360 :> "R10000") @@ (361 :> "WCEMIPSV2") @@ (388 :> "ALPHA")
    @@ (418 :> "SH3") @@ (419 :> "SH3DSP") @@ (420 :> "SH3E") @@ (422 :> "SH4")
    @@ (424 :> "SH5") @@ (448 :> "ARM") @@ (450 :> "THUMB") @@ (452 :> "ARMNT")
    @@ (467 :> "AM33") @@ (496 :> "POWERPC") @@ (497 :> "POWERPCFP")
    @@ (512 :> "IA64") @@ (614 :> "MIPS16") @@ (644 :> "ALPHA64")
    @@ (870 :> "MIPSFPU") @@ (1126 :> "MIPSFPU16") @@ (1312 :> "TRICORE")
    @@ (3311 :> "CEF") @@ (3772 :> "EBC") @@ (34404 :> "AMD64")
    @@ (36929 :> "M32R") @@ (49390 :> "CEE")

\* machine_types.get(machine, 'UNKNOWN')
machine_types_get(machine) ==
    IF machine \in DOMAIN machine_types THEN machine_types[machine] ELSE "UNKNOWN"

\* struct 'l' in native mode where this branch runs: 4 bytes, little-endian,
\* two's complement
unpack_long(b) ==
    b[1] + 256 * b[2] + 65536 * b[3]
    + 16777216 * (IF b[4] >= 128 THEN b[4] - 256 ELSE b[4])

\* struct 'H': 2 bytes, little-endian, unsigned
unpack_ushort(b) == b[1] + 256 * b[2]

get_shared_library_arch(file) ==
    LET dos_headers == Slice(file, 0, 64)
        magic == Slice(dos_headers, 0, 2)
        offset == unpack_long(Slice(dos_headers, 60, 64))
        pe_header == Slice(file, offset, offset + 6)
        sig == Slice(pe_header, 0, 2)
        machine == unpack_ushort(Slice(pe_header, 4, 6))
    IN IF Len(dos_headers) # 64 THEN Raise("struct.error")
       ELSE IF magic # <<77, 90>> THEN Raise("Not an executable")
       ELSE IF offset < 0 THEN Raise("OSError")
       ELSE IF Len(pe_header) # 6 THEN Raise("struct.error")
       ELSE IF sig # <<80, 69>> THEN Raise("Not a PE executable")
       ELSE Ok(machine_types_get(machine))

Platforms == {"win32", "cygwin", "linux", "linux2", "darwin"}

\* this_platform.startswith(prefix), over Platforms
startswith(platform, prefix) ==
    CASE prefix = "win" -> platform = "win32"
      [] prefix = "linux" -> platform \in {"linux", "linux2", "linux3"}
      [] OTHER -> FALSE

\* get_arch with 'IA64' dropped from the 64-bit names
get_arch_without_ia64(platform, file, tool) ==
    IF startswith(platform, "win")
    THEN LET machine_type == get_shared_library_arch(file)
         IN IF ~machine_type.ok THEN machine_type
            ELSE IF machine_type.val = "I386" THEN Ok(<<32>>)
            ELSE IF machine_type.val = "AMD64" THEN Ok(<<64>>)
            ELSE Ok(<<>>)
    ELSE Raise("OSError")

\* tool is what check_output(["file", filename]) and its decoding give:
\* the set of substrings of interest found in the output, or an exception
get_arch(platform, file, tool) ==
    IF startswith(platform, "win")
    THEN LET machine_type == get_shared_library_arch(file)
         IN IF ~machine_type.ok THEN machine_type
            ELSE IF machine_type.val = "I386" THEN Ok(<<32>>)
            ELSE IF machine_type.val \in {"IA64", "AMD64"} THEN Ok(<<64>>)
            ELSE Ok(<<>>)
    ELSE IF platform \notin {"linux2", "linux3", "linux", "darwin"}
    THEN Raise("OSError")
    ELSE IF ~tool.ok THEN tool
    ELSE IF startswith(platform, "linux")
    THEN Ok((IF "32-bit" \in tool.val THEN <<32>> ELSE <<>>)
            \o (IF "64-bit" \in tool.val THEN <<64>> ELSE <<>>))
    ELSE IF platform = "darwin"
    THEN Ok((IF "(for architecture i386)" \in tool.val THEN <<32>> ELSE <<>>)
            \o (IF "(for architecture x86_64)" \in tool.val THEN <<64>> ELSE <<>>))
    ELSE Ok(<<>>)

(***************************************************************************)
(* The prober's inputs: library files and outputs of the file utility.     *)
(***************************************************************************)
Zeros(n) == [i \in 1..n |-> 0]

MachineCodes == DOMAIN machine_types \cup {1, 333, 65535}

Magics == {<<77, 90>>, <<90, 77>>, <<127, 69>>}

Signatures == {<<80, 69>>, <<78, 69>>}

\* where the PE header lies in the file
PePlaces == {64, 72}

\* the bytes 60..63: the place of the PE header, the file's start, a place
\* past the end of the file, or a negative number
OffsetFields == {<<64, 0, 0, 0>>, <<72, 0, 0, 0>>, <<0, 0, 0, 0>>,
                 <<200, 0, 0, 0>>, <<255, 255, 255, 255>>}

Ingredients ==
    [magic : Magics, field : OffsetFields, pe_at : PePlaces, sig : Signatures,
     machine : MachineCodes, short : BOOLEAN]

BuildFile(g) ==
    LET whole == g.magic \o Zeros(58) \o g.field \o Zeros(g.pe_at - 64)
                 \o g.sig \o <<0, 0>> \o <<g.machine % 256, g.machine \div 256>>
    IN IF g.short THEN SubSeq(whole, 1, 32) ELSE whole

DefaultIngredients ==
    [magic |-> <<77, 90>>, field |-> <<64, 0, 0, 0>>, pe_at |-> 64,
     sig |-> <<80, 69>>, machine |-> 332, short |-> FALSE]

Markers == {"32-bit", "64-bit", "(for architecture i386)", "(for architecture x86_64)"}

ToolResults == {Ok(m) : m \in SUBSET Markers} \cup {Raise("CalledProcessError")}

NotRun == Ok({})

NoProbe == [called |-> FALSE, made |-> DefaultIngredients, tool |-> NotRun,
            res |-> NoResult]

ProbeIdle == probe = NoProbe

\* a direct call get_arch(filename); the file is read on the Windows branch and
\* the file utility is run on the others
GetArch(g, tool) ==
    /\ ~probe.called
    /\ probe' = [called |-> TRUE, made |-> g, tool |-> tool,
                 res |-> get_arch(this_platform, BuildFile(g), tool)]

ForgetProbe ==
    /\ probe.called
    /\ probe' = NoProbe

ProbeOnly == UNCHANGED <<codec_vars, big, this_platform, path_vars>>

Probe ==
    /\ ~probe.called
    /\ \E g \in (IF startswith(this_platform, "win")
                  THEN Ingredients ELSE {DefaultIngredients}),
          tool \in (IF startswith(this_platform, "win")
                     THEN {NotRun} ELSE ToolResults) :
          GetArch(g, tool)
    /\ ProbeOnly

Forget == ForgetProbe /\ ProbeOnly

(***************************************************************************)
(* LibraryPath: a path with a lazily computed, cached architecture.        *)
(***************************************************************************)
Paths == {"visa32.dll", "libvisa.so"}

\* what get_arch can return or raise when it is invoked, whatever the file
\* holds at that moment
Outcomes ==
    {get_arch(this_platform, BuildFile(g), tool) :
        g \in {[DefaultIngredients EXCEPT !.machine = m, !.magic = mg] :
                  m \in {332, 34404, 448}, mg \in {<<77, 90>>, <<127, 69>>}},
        tool \in ToolResults}

\* the arch property testing "not self._arch" instead of "self._arch is None"
arch_if_falsy(cur, outcome) ==
    IF cur = None \/ cur = <<>>
    THEN LET got == IF outcome.ok THEN outcome.val ELSE <<>>
         IN [ret |-> got, after |-> got, invoked |-> 1]
    ELSE [ret |-> cur, after |-> cur, invoked |-> 0]

\* the arch property on an object whose _arch is cur, get_arch giving outcome
\* if it is invoked: the value returned, _arch afterwards, invocations made
arch(cur, outcome) ==
    IF cur = None
    THEN LET got == IF outcome.ok THEN outcome.val ELSE <<>>
         IN [ret |-> got, after |-> got, invoked |-> 1]
    ELSE [ret |-> cur, after |-> cur, invoked |-> 0]

Contains(t, x) == \E i \in 1..Len(t) : t[i] = x

\* is_32bit, is_64bit and bitness read self.arch, and read it again unless it
\* is empty; o1 and o2 are get_arch's outcomes should these reads invoke it
arch_twice(cur, o1, o2) ==
    LET r1 == arch(cur, o1)
        r2 == arch(r1.after, o2)
    IN IF r1.ret = <<>>
       THEN [arch |-> r1.ret, after |-> r1.after, invoked |-> r1.invoked,
             again |-> FALSE]
       ELSE [arch |-> r2.ret, after |-> r2.after,
             invoked |-> r1.invoked + r2.invoked, again |-> TRUE]

\* ', '.join(str(a) for a in t)
bitness_str(t) ==
    IF t = <<32>> THEN "32"
    ELSE IF t = <<64>> THEN "64"
    ELSE IF t = <<32, 64>> THEN "32, 64"
    ELSE ""

NoRead == [n |-> 0, prop |-> "", arch |-> None, ret |-> None]

PathIdle ==
    /\ _arch = [p \in Paths |-> None]
    /\ calls = [p \in Paths |-> 0]
    /\ first_arch = [p \in Paths |-> None]
    /\ last_read = [p \in Paths |-> NoRead]

\* the bookkeeping of one property read of object p
Observe(p, prop, seen, after, invoked, ret) ==
    /\ last_read[p].n < MaxReads
    /\ _arch' = [_arch EXCEPT ![p] = after]
    /\ calls' = [calls EXCEPT ![p] = @ + invoked]
    /\ first_arch' = [first_arch EXCEPT ![p] = IF last_read[p].n = 0 THEN seen ELSE @]
    /\ last_read' = [last_read EXCEPT
                       ![p] = [n |-> @.n + 1, prop |-> prop, arch |-> seen, ret |-> ret]]

ReadArch(p, o1) ==
    LET r == arch(_arch[p], o1)
    IN Observe(p, "arch", r.ret, r.after, r.invoked, r.ret)

ReadIs32bit(p, o1, o2) ==
    LET r == arch_twice(_arch[p], o1, o2)
    IN Observe(p, "is_32bit", r.arch, r.after, r.invoked,
               IF ~r.again THEN "n/a" ELSE Contains(r.arch, 32))

ReadIs64bit(p, o1, o2) ==
    LET r == arch_twice(_arch[p], o1, o2)
    IN Observe(p, "is_64bit", r.arch, r.after, r.invoked,
               IF ~r.again THEN "n/a" ELSE Contains(r.arch, 64))

ReadBitness(p, o1, o2) ==
    LET r == arch_twice(_arch[p], o1, o2)
    IN Observe(p, "bitness", r.arch, r.after, r.invoked,
               IF ~r.again THEN "n/a" ELSE bitness_str(r.arch))

PathOnly == UNCHANGED <<codec_vars, big, this_platform, probe>>

Arch == (\E p \in Paths, o1 \in Outcomes : ReadArch(p, o1)) /\ PathOnly

Is32bit ==
    (\E p \in Paths, o1 \in Outcomes, o2 \in Outcomes : ReadIs32bit(p, o1, o2))
    /\ PathOnly

Is64bit ==
    (\E p \in Paths, o1 \in Outcomes, o2 \in Outcomes : ReadIs64bit(p, o1, o2))
    /\ PathOnly

Bitness ==
    (\E p \in Paths, o1 \in Outcomes, o2 \in Outcomes : ReadBitness(p, o1, o2))
    /\ PathOnly

(***************************************************************************)
(* Specifications.                                                         *)
(***************************************************************************)
Init ==
    /\ CodecIdle /\ LargeIdle /\ ProbeIdle /\ PathIdle
    /\ this_platform = "linux"

PlatformInit ==
    /\ CodecIdle /\ LargeIdle /\ ProbeIdle /\ PathIdle
    /\ this_platform \in Platforms

Next == Encode \/ Arrive \/ DecodePrimary \/ DecodeLegacy \/ Discard

LargeNext == EncodeLarge \/ DecodeLarge \/ DiscardLarge

ProbeNext == Probe \/ Forget

PathNext == Arch \/ Is32bit \/ Is64bit \/ Bitness

\* the block codec on stored buffers
Spec == Init /\ [][Next]_vars

\* the block codec on sequences too long to store
SpecLarge == Init /\ [][LargeNext]_vars

\* the architecture prober called directly
SpecProbe == PlatformInit /\ [][ProbeNext]_vars

\* LibraryPath objects and their property reads
SpecPath == PlatformInit /\ [][PathNext]_vars

(***************************************************************************)
(* Properties.  The vocabulary they share is stated over the inputs the    *)
(* blocks were made from, not over a second parse of the block.            *)
(***************************************************************************)
Called(r) == r # NoResult

Encoded == pc = "ready" /\ origin.kind = "to_ieee_block"

\* a received block that starts with '#', a digit L >= 1 and L length digits
Definite == pc = "ready" /\ origin.kind = "wire" /\ origin.hdr.kind = "definite"

\* a received block that is exactly '#0', whole packed elements and term
Indefinite(term) ==
    /\ pc = "ready" /\ origin.kind = "wire" /\ origin.hdr.kind = "zero"
    /\ origin.junk = <<>>
    /\ origin.cut = Len(data) * calcsize(datatype)
    /\ origin.term = term

\* the bytes the buffer holds after the header of a definite block
Available == origin.cut + Len(origin.term)

\* got is v, element by element, within the precision of dt
SameWithin(dt, got, v) ==
    /\ Len(got) = Len(v)
    /\ \A i \in 1..Len(v) :
          IF dt = "f" THEN Narrow(got[i]) = Narrow(v[i]) ELSE got[i] = v[i]

\* Supporting fact, stored sequences only: decoding what to_ieee_block made
\* gives the numbers back within the precision of the datatype.
RoundTripStored ==
    (Encoded /\ Called(from_res))
        => (block.ok /\ from_res.ok /\ SameWithin(datatype, from_res.val, data))

\* C1 (as claimed): from_ieee_block(to_ieee_block(v, f, e), f, e) returns a
\* sequence of the same length as v, for every finite sequence v.  Stated on
\* the number of elements, which is what is kept of a long sequence.
C1_RoundTripLength ==
    big.stage = "decoded" => (big.res.ok /\ big.res.val = big.n)

\* C2 (as claimed): the block made by to_ieee_block(v, f) is '#', the digit
\* D, the D decimal digits of P and P payload bytes, where P is the byte
\* length of the packed payload (4 or 8 bytes per element): the length field
\* is the payload byte count and the buffer is 1 + 1 + D + P bytes long.
C2_HeaderArithmetic ==
    Encoded =>
        LET P == Len(data) * calcsize(datatype)
            D == Len(Str(P))
        IN /\ block.ok
           /\ Len(block.val) = 1 + 1 + D + P
           /\ block.val[2] = 48 + D
           /\ Slice(block.val, 2, 2 + D) = Str(P)

\* C3 (as claimed): from_ieee_block with datatype double applied to '#0'
\* followed by exactly k packed doubles and nothing else returns exactly
\* those k values in order.
C3_IndefiniteDecode ==
    (Indefinite(<<>>) /\ datatype = "d" /\ Called(from_res))
        => (from_res.ok /\ from_res.val = data)

\* C4 (as claimed): a definite-length block whose header declares N payload
\* bytes while fewer than N bytes follow the header is rejected with
\* ValueError by from_ieee_block and by parse_binary.
C4_TruncationRejected ==
    (Definite /\ Available < origin.hdr.N)
        => /\ Called(from_res) => IsValueError(from_res)
           /\ Called(pb_res) => IsValueError(pb_res)

\* C5 (as claimed): to_ieee_block fails with SizeOverflow when the length it
\* writes needs 10 or more decimal digits, and a block it does return has a
\* one-digit header-length field: '#', one digit L, then L length digits.
C5_EncodeOverflow ==
    big.stage # "idle"
        => /\ big.n >= 1000000000
                => (~big.head.ok /\ big.head.err = "SizeOverflow")
           /\ big.head.ok
                => Len(big.head.val) = 2 + (big.head.val[2] - 48)

\* C8 (as claimed): a definite-length block whose declared length N is not
\* a multiple of the element size, with at least N bytes after the header,
\* is rejected with ValueError by from_ieee_block and by parse_binary.
C8_UnalignedRejected ==
    (Definite /\ origin.hdr.N % calcsize(datatype) # 0
              /\ Available >= origin.hdr.N)
        => /\ Called(from_res) => IsValueError(from_res)
           /\ Called(pb_res) => IsValueError(pb_res)

\* C9 (as claimed): on a definite-length block parse_binary(buffer, e,
\* is_single) and from_ieee_block(buffer, 'f' if is_single else 'd', e)
\* either both fail with ValueError or both return the same values.
C9_LegacyMirrorsPrimary ==
    (Definite /\ Called(from_res) /\ Called(pb_res))
        => \/ (IsValueError(from_res) /\ IsValueError(pb_res))
           \/ (from_res.ok /\ pb_res.ok /\ from_res.val = pb_res.val)

\* C10 (as claimed): parse_binary applied to '#0' followed by k packed
\* elements, with nothing or with exactly one newline after them, returns
\* exactly those k values in order, whatever bytes the payload holds.
C10_LegacyIndefinite ==
    ((Indefinite(<<>>) \/ Indefinite(<<NEWLINE>>)) /\ Called(pb_res))
        => (pb_res.ok /\ SameWithin(datatype, pb_res.val, data))

\* the set of word sizes C6 names for a machine code
Classified(machine) ==
    IF machine = 332 THEN <<32>>
    ELSE IF machine \in {512, 34404} THEN <<64>>
    ELSE <<>>

NotExecutable(r) == ~r.ok /\ r.err \in {"Not an executable", "Not a PE executable"}

\* the offset field of the file points to the place of its PE header
PointsToPe(g) == g.field = <<g.pe_at, 0, 0, 0>>

\* C6: on the Windows branch, for a file of at least 64 bytes: with magic
\* 'MZ' and the offset field pointing to a region that starts with 'PE',
\* get_arch returns (32,) for machine code 0x014c, (64,) for 0x0200 and
\* 0x8664 and () for every other code; with another magic, or with 'MZ' and
\* a region that does not start with 'PE', it fails as not an executable.
C6_WindowsClassification ==
    (probe.called /\ startswith(this_platform, "win") /\ ~probe.made.short)
        => LET g == probe.made
           IN /\ (g.magic = <<77, 90>> /\ PointsToPe(g) /\ g.sig = <<80, 69>>)
                    => probe.res = Ok(Classified(g.machine))
              /\ g.magic # <<77, 90>> => NotExecutable(probe.res)
              /\ (g.magic = <<77, 90>>
                   /\ ((PointsToPe(g) /\ g.sig # <<80, 69>>)
                        \/ g.field = <<0, 0, 0, 0>>))
                    => NotExecutable(probe.res)

\* C6 witness: a well-formed PE file for AMD64 has been probed on Windows
\* and classified as 64-bit
C6_Witness ==
    /\ probe.called /\ startswith(this_platform, "win") /\ ~probe.made.short
    /\ probe.made.magic = <<77, 90>> /\ PointsToPe(probe.made)
    /\ probe.made.sig = <<80, 69>>
    /\ probe.made.machine = 34404
    /\ probe.res = Ok(<<64>>)

\* C7: on every LibraryPath object get_arch is invoked at most once, on the
\* first property read (also when it fails), and every read sees the arch
\* value the first read saw.
C7_ArchCached ==
    \A p \in Paths :
        /\ calls[p] <= 1
        /\ last_read[p].n > 0
              => (calls[p] = 1 /\ _arch[p] # None
                  /\ last_read[p].arch = first_arch[p]
                  /\ _arch[p] = first_arch[p])

\* C7 witness: an object whose first get_arch failed has been read again
C7_Witness ==
    \E p \in Paths :
        /\ last_read[p].n >= 2
        /\ calls[p] = 1
        /\ first_arch[p] = <<>>
        /\ last_read[p].ret = "n/a"

=============================================================================
